---- MODULE Spec2Model ----
(***************************************************************************)
(* A model of the random number generator of src/src/lib.rs.               *)
(*                                                                         *)
(* A u64 is the sequence of its 8 little-endian bytes and a u128 the       *)
(* sequence of its 16 little-endian bytes: byte i carries the weight       *)
(* 256^(i-1), so that to_le_bytes and from_le_bytes keep the order of the  *)
(* bytes.  TLC's integers are 32 bits wide; every arithmetic operator      *)
(* below works on these byte sequences and keeps the width of the Rust     *)
(* type it models.                                                         *)
(***************************************************************************)
EXTENDS Integers, Sequences, FiniteSets, TLC

\* ------------------------------------------------------------------ bytes

Byte == 0..255

\* <<f[1], ..., f[n]>> as an explicit tuple.
AsSeq(f) == <<>> \o f

U64Zero == <<0, 0, 0, 0, 0, 0, 0, 0>>
U64One == <<1, 0, 0, 0, 0, 0, 0, 0>>
U64Max == <<255, 255, 255, 255, 255, 255, 255, 255>>
U128Zero == U64Zero \o U64Zero
U128One == U64One \o U64Zero

Pow2 == <<1, 2, 4, 8, 16, 32, 64, 128, 256>>

\* a ^ b on n-bit values
RECURSIVE XorN(_, _, _)
XorN(a, b, n) ==
  IF n = 0 THEN 0
  ELSE ((a + b) % 2) + 2 * XorN(a \div 2, b \div 2, n - 1)

\* a | b on n-bit values
RECURSIVE OrN(_, _, _)
OrN(a, b, n) ==
  IF n = 0 THEN 0
  ELSE (IF (a % 2) + (b % 2) > 0 THEN 1 ELSE 0) + 2 * OrN(a \div 2, b \div 2, n - 1)

\* a ^ b for two 4-bit values, tabulated: XorNib[a + 1][b + 1]
XorNib == AsSeq([a \in 1..16 |-> AsSeq([b \in 1..16 |-> XorN(a - 1, b - 1, 4)])])

\* a ^ b for two bytes, tabulated from the two halves: XorTab[a + 1][b + 1]
XorTab ==
  AsSeq([a \in 1..256 |-> AsSeq([b \in 1..256 |->
    XorNib[((a - 1) % 16) + 1][((b - 1) % 16) + 1]
      + 16 * XorNib[((a - 1) \div 16) + 1][((b - 1) \div 16) + 1]])])

\* u64 ^ u64
xor(x, y) ==
  <<XorTab[x[1] + 1][y[1] + 1], XorTab[x[2] + 1][y[2] + 1],
    XorTab[x[3] + 1][y[3] + 1], XorTab[x[4] + 1][y[4] + 1],
    XorTab[x[5] + 1][y[5] + 1], XorTab[x[6] + 1][y[6] + 1],
    XorTab[x[7] + 1][y[7] + 1], XorTab[x[8] + 1][y[8] + 1]>>

\* u64 | u64
bitor(x, y) == AsSeq([i \in 1..8 |-> OrN(x[i], y[i], 8)])

\* byte i (1-based) of x >> n for a u64 x; the bytes past the top are zeros
\* for a shift and x's own low bytes for a rotation (wrap)
ShiftedByte(x, n, i, wrap) ==
  LET q == n \div 8
      r == n % 8
      at(k) == IF k <= 8 THEN x[k] ELSE IF wrap THEN x[k - 8] ELSE 0
  IN (at(i + q) \div Pow2[r + 1]) + (at(i + q + 1) % Pow2[r + 1]) * Pow2[8 - r + 1]

\* u64::rotate_right
rotate_right(x, n) == AsSeq([i \in 1..8 |-> ShiftedByte(x, n, i, TRUE)])

\* u64 >> n
shr(x, n) == AsSeq([i \in 1..8 |-> ShiftedByte(x, n, i, FALSE)])

\* the bytes of x + y for two u64 and a carry in, with the carry out as byte 9
RECURSIVE AddBytes(_, _, _, _)
AddBytes(x, y, i, carry) ==
  IF i > 8 THEN <<carry>>
  ELSE LET s == x[i] + y[i] + carry
       IN <<s % 256>> \o AddBytes(x, y, i + 1, s \div 256)

\* u64::wrapping_add
wrapping_add(x, y) == SubSeq(AddBytes(x, y, 1, 0), 1, 8)

\* the sum of the byte products x[i] * y[j] with (i - 1) + (j - 1) = k, from
\* byte i of x on: column k of the schoolbook product
RECURSIVE Column(_, _, _, _)
Column(x, y, k, i) ==
  IF i > 8 \/ i > k + 1 THEN 0
  ELSE x[i] * y[k - i + 2] + Column(x, y, k, i + 1)

\* the low n bytes of the product of two u64, from column k on
RECURSIVE MulBytes(_, _, _, _, _)
MulBytes(x, y, k, n, carry) ==
  IF k >= n THEN <<>>
  ELSE LET s == Column(x, y, k, IF k > 7 THEN k - 6 ELSE 1) + carry
       IN <<s % 256>> \o MulBytes(x, y, k + 1, n, s \div 256)

\* (x as u128) * (y as u128): never overflows 128 bits
widening_mul(x, y) == MulBytes(x, y, 0, 16, 0)

\* u64::wrapping_mul
wrapping_mul(x, y) == MulBytes(x, y, 0, 8, 0)

\* umulh without the shift: ((x as u128) * (y as u128)) as u64
umulh_unshifted(x, y) == SubSeq(widening_mul(x, y), 1, 8)

\* src/src/lib.rs: umulh
umulh(x, y) == SubSeq(widening_mul(x, y), 9, 16)

\* ------------------------------------------------------------- generator

\* make_state without the match on None: the seed's u128 as it is
make_state_unchecked(seed) == seed

\* src/src/lib.rs: make_state.  The result is a NonZeroU128.
make_state(seed) == IF seed = U128Zero THEN U128One ELSE seed

\* Rng::new with the halves exchanged: x = (s >> 64) as u64, y = s as u64
Rng_new_swapped(s) == [x |-> SubSeq(s, 9, 16), y |-> SubSeq(s, 1, 8)]

\* src/src/lib.rs: Rng::new.  x = s as u64, y = (s >> 64) as u64.
Rng_new(s) == [x |-> SubSeq(s, 1, 8), y |-> SubSeq(s, 9, 16)]

\* src/src/lib.rs: Rng::from_seed
Rng_from_seed(seed) == Rng_new(make_state(seed))

\* src/src/lib.rs: Rng::state, the u128 (x as u128) | ((y as u128) << 64)
\* handed to NonZeroU128::new_unchecked
Rng_state(r) == r.x \o r.y

\* Rng::state on a zero pair hands 0 to NonZeroU128::new_unchecked, which is
\* undefined behaviour.
StateIsUB(r) == Rng_state(r) = U128Zero

\* Rng::next with rotate_right(8) in place of rotate_right(7)
Rng_next_rotate8(r) ==
  LET x == r.x
      y == r.y
      a == xor(rotate_right(x, 8), y)
      b == xor(x, shr(x, 19))
      c == wrapping_add(a, xor(wrapping_mul(x, y), umulh(x, y)))
  IN [g |-> [x |-> a, y |-> b], c |-> c, calls |-> 1]

\* Rng::next with b = (x ^ x) >> 19, the other reading of x ^ x >> 19
Rng_next_precedence(r) ==
  LET x == r.x
      y == r.y
      a == xor(rotate_right(x, 7), y)
      b == shr(xor(x, x), 19)
      c == wrapping_add(a, xor(wrapping_mul(x, y), umulh(x, y)))
  IN [g |-> [x |-> a, y |-> b], c |-> c, calls |-> 1]

\* src/src/lib.rs: Rng::next.  The generator after the call and the value
\* returned.
Rng_next(r) ==
  LET x == r.x
      y == r.y
      a == xor(rotate_right(x, 7), y)
      b == xor(x, shr(x, 19))
      c == wrapping_add(a, xor(wrapping_mul(x, y), umulh(x, y)))
  IN [g |-> [x |-> a, y |-> b], c |-> c, calls |-> 1]

\* src/src/lib.rs: Rng::chunk.  array::from_fn calls next once per index, in
\* index order.  calls counts the calls of next made.
RECURSIVE Rng_chunk(_, _)
Rng_chunk(r, N) ==
  IF N = 0 THEN [g |-> r, a |-> <<>>, calls |-> 0]
  ELSE LET n1 == Rng_next(r)
           rest == Rng_chunk(n1.g, N - 1)
       IN [g |-> rest.g, a |-> <<n1.c>> \o rest.a, calls |-> 1 + rest.calls]

\* Rng::split without | 1
Rng_split_as_is(r) ==
  LET n1 == Rng_next(r)
      n2 == Rng_next(n1.g)
  IN [g |-> n2.g, child |-> [x |-> n1.c, y |-> n2.c], calls |-> 2]

\* Rng::split with the fields filled in the other order: y first, then x
Rng_split_y_first(r) ==
  LET n1 == Rng_next(r)
      n2 == Rng_next(n1.g)
  IN [g |-> n2.g, child |-> [x |-> bitor(n2.c, U64One), y |-> n1.c], calls |-> 2]

\* src/src/lib.rs: Rng::split.  The fields of the struct expression are
\* evaluated in the order written: x first, then y.
Rng_split(r) ==
  LET n1 == Rng_next(r)
      n2 == Rng_next(n1.g)
  IN [g |-> n2.g, child |-> [x |-> bitor(n1.c, U64One), y |-> n2.c], calls |-> 2]

\* The loop and the match of Rng::fill on a generator r, the part of the
\* buffer still to write (dst) and the part already written (done).
\* n counts the calls of next made so far.
RECURSIVE FillLoop(_, _, _, _)
FillLoop(r, dst, done, n) ==
  LET n1 == Rng_next(r)
      x == n1.c
  IN IF Len(dst) <= 8
     THEN [g |-> n1.g, buf |-> done \o SubSeq(x, 1, Len(dst)), calls |-> n + 1]
     ELSE FillLoop(n1.g, SubSeq(dst, 9, Len(dst)), done \o x, n + 1)

\* Rng::fill with the loop left on dst.len() < 8 instead of <= 8
Rng_fill_strict(r, dst) ==
  LET RECURSIVE Loop(_, _, _, _)
      Loop(gen, rest, done, n) ==
        IF Len(rest) < 8
        THEN [g |-> Rng_next(gen).g,
              buf |-> done \o SubSeq(Rng_next(gen).c, 1, Len(rest)),
              calls |-> n + 1]
        ELSE Loop(Rng_next(gen).g, SubSeq(rest, 9, Len(rest)),
                  done \o Rng_next(gen).c, n + 1)
  IN IF Len(dst) = 0 THEN [g |-> r, buf |-> dst, calls |-> 0]
     ELSE Loop(r, dst, <<>>, 0)

\* src/src/lib.rs: Rng::fill.  The generator after the call and the buffer
\* as the call leaves it.
Rng_fill(r, dst) ==
  IF Len(dst) = 0 THEN [g |-> r, buf |-> dst, calls |-> 0]
  ELSE FillLoop(r, dst, <<>>, 0)

\* ------------------------------------------------------- bounds and inputs

\* the most calls of next one generator and its descendants make
MaxDraws == 3
\* the longest chunk asked for
MaxChunk == 3
\* the longest buffer handed to fill
MaxLen == 20

\* b"autovivification" (src/tests/all.rs, src/examples/rng.rs)
Autovivi == <<97, 117, 116, 111, 118, 105, 118, 105>>
Fication == <<102, 105, 99, 97, 116, 105, 111, 110>>
AsciiSeed == Autovivi \o Fication

\* the 64-bit halves the seeds are put together from
Words == {U64Zero, U64One, U64Max, Autovivi, Fication}

\* the 16-byte seeds given to Rng::from_seed
Seeds == {lo \o hi : lo \in Words, hi \in Words}

\* no generator (nothing split off yet)
NoRng == [x |-> <<>>, y |-> <<>>]

\* ------------------------------------------------------------------ state

VARIABLES
  seed,    \* the seed the generator was made from
  g,       \* the generator the caller holds
  pre,     \* the generator as it was before the last call
  op,      \* the last call: its name and its argument
  out,     \* the u64s the last next or chunk returned
  child,   \* the generator the last split returned
  buf,     \* the buffer the last fill wrote
  st,      \* the u128 the last state() returned
  ub,      \* whether a call had undefined behaviour
  calls,   \* the calls of next the last call made
  draws,   \* the calls of next made so far
  tfile,   \* the test that runs: "all" (tests/all.rs), "vectors"
           \* (tests/unified/vectors.rs) or "none"
  tpc,     \* the statements of the test executed after from_seed
  tseen,   \* the strings the test formatted so far, as hex digits
  RNG,     \* thread_local::RNG: the u128 in the Cell of each thread
  tl,      \* each thread's call of with_rng_non_reentrant: where it is,
           \* and the locals of the closure
  ret,     \* what each thread's last call of thread_local::chunk or
           \* thread_local::split returned
  hist,    \* per thread, what happened so far (history only, read by no
           \* action's guard but the budget)
  pk,      \* the bits of the exponent 2^128 - 1 taken so far
  Sq,      \* the matrix of next's transition to the power 2^pk
  Pw,      \* the matrix of next's transition to the power 2^pk - 1
  acc      \* per probe vector v and prime p, the transition to the power
           \* ((2^128 - 1) / p) mod 2^pk applied to v

coreVars == <<seed, g, pre, op, out, child, buf, st, ub, calls, draws>>

testVars == <<tfile, tpc, tseen>>

tlVars == <<RNG, tl, ret, hist>>

periodVars == <<pk, Sq, Pw, acc>>

vars == <<coreVars, testVars, tlVars, periodVars>>

Call(name, n) == [name |-> name, n |-> n]

\* let mut g = Rng::from_seed(seed)
InitRng ==
  /\ seed \in Seeds
  /\ g = Rng_from_seed(seed)
  /\ pre = NoRng
  /\ op = Call("from_seed", 0)
  /\ out = <<>>
  /\ child = NoRng
  /\ buf = <<>>
  /\ st = <<>>
  /\ ub = FALSE
  /\ calls = 0
  /\ draws = 0

\* what every call leaves of the results of the call before it
Returned(o, c, b, s) ==
  /\ out' = o
  /\ child' = c
  /\ buf' = b
  /\ st' = s

\* what a call that draws leaves: the generator after it, and the count of
\* the calls of next it made
Drew(r) ==
  /\ g' = r.g
  /\ pre' = g
  /\ calls' = r.calls
  /\ draws' = draws + r.calls
  /\ UNCHANGED <<seed, ub>>

\* The model stops a caller whose generators have made MaxDraws calls of
\* next: a call is taken while the draws it asks for fit.
Fits(n) == draws + n <= MaxDraws

\* g.next()
CallNext ==
  LET r == Rng_next(g)
  IN /\ Fits(1)
     /\ Drew(r)
     /\ Returned(<<r.c>>, NoRng, <<>>, <<>>)
     /\ op' = Call("next", 0)
     /\ UNCHANGED <<testVars, tlVars, periodVars>>

\* g.chunk::<N>()
CallChunk ==
  \E N \in 0..MaxChunk :
    LET r == Rng_chunk(g, N)
    IN /\ Fits(N)
       /\ Drew(r)
       /\ Returned(r.a, NoRng, <<>>, <<>>)
       /\ op' = Call("chunk", N)
       /\ UNCHANGED <<testVars, tlVars, periodVars>>

\* g.split()
CallSplit ==
  LET r == Rng_split(g)
  IN /\ Fits(2)
     /\ Drew(r)
     /\ Returned(<<>>, r.child, <<>>, <<>>)
     /\ op' = Call("split", 0)
     /\ UNCHANGED <<testVars, tlVars, periodVars>>

\* g.fill(&mut [0u8; L])
CallFill ==
  \E L \in 0..MaxLen :
    LET r == Rng_fill(g, [i \in 1..L |-> 0])
    IN /\ Fits((L + 7) \div 8)
       /\ Drew(r)
       /\ Returned(<<>>, NoRng, r.buf, <<>>)
       /\ op' = Call("fill", L)
       /\ UNCHANGED <<testVars, tlVars, periodVars>>

\* g.state()
CallState ==
  /\ op.name # "state"
  /\ Returned(<<>>, NoRng, <<>>, Rng_state(g))
  /\ ub' = (ub \/ StateIsUB(g))
  /\ pre' = g
  /\ op' = Call("state", 0)
  /\ calls' = 0
  /\ UNCHANGED <<seed, g, draws, testVars, tlVars, periodVars>>

\* let mut g = g.split(): the caller goes on with the generator split off
Adopt ==
  /\ op.name = "split"
  /\ g' = child
  /\ Returned(<<>>, NoRng, <<>>, <<>>)
  /\ pre' = g
  /\ op' = Call("adopt", 0)
  /\ calls' = 0
  /\ UNCHANGED <<seed, ub, draws, testVars, tlVars, periodVars>>

Next ==
  \/ CallNext
  \/ CallChunk
  \/ CallSplit
  \/ CallFill
  \/ CallState
  \/ Adopt

\* no test runs
NoTest == tfile = "none" /\ tpc = 0 /\ tseen = <<>>

\* no power of the transition is computed
NoPeriod == pk = 0 /\ Sq = <<>> /\ Pw = <<>> /\ acc = <<>>

\* ------------------------------------------------------------ thread_local

\* two threads
Threads == {1, 2}

\* the accesses to thread_local::RNG that all threads together begin
MaxAccesses == 3

\* the N of the calls thread_local::chunk::<N>()
ChunkSizes == {0, 2}

\* what getrandom::getrandom may leave in the seed
OsSeeds == {U128Zero, AsciiSeed}

\* a thread with its own Cell reads and writes the Cell of a thread alone
\* (a static that is shared)
SharedCell(t) == 1

\* std::thread_local!: each thread has a Cell of its own
CellOf(t) == t

Idle == [pc |-> "idle"]

NoHist ==
  [own |-> NoRng,     \* an owned Rng made from the seed the thread got,
                      \* given the calls the thread made
   ownRet |-> <<>>,   \* what the last of these calls returned
   lastSet |-> U128Zero,  \* what the thread last set its Cell to
   begun |-> 0,       \* the accesses the thread began
   seedCalls |-> 0,   \* its calls of get_system_seed
   seededAt |-> 0,    \* seedCalls when the first one succeeded
   seed |-> <<>>,     \* the seed that call returned
   ops |-> <<>>]      \* the calls the thread made since, oldest first

\* thread_local! { static RNG: Cell<u128> = const { Cell::new(0) } }; no
\* thread in with_rng_non_reentrant
InitTL ==
  /\ RNG = [t \in Threads |-> U128Zero]
  /\ tl = [t \in Threads |-> Idle]
  /\ ret = [t \in Threads |-> <<>>]
  /\ hist = [t \in Threads |-> NoHist]

\* f(&mut g) for f = Rng::chunk::<N> or f = Rng::split
Applied(f, r) ==
  IF f.name = "chunk"
  THEN LET c == Rng_chunk(r, f.n) IN [g |-> c.g, a |-> c.a]
  ELSE LET c == Rng_split(r) IN [g |-> c.g, a |-> c.child]

\* the accesses begun so far
RECURSIVE Begun(_)
Begun(T) ==
  IF T = {} THEN 0
  ELSE LET t == CHOOSE u \in T : TRUE IN hist[t].begun + Begun(T \ {t})

\* with_rng_non_reentrant that drops the value read from the Cell and makes
\* its state from the seed every time
Entered_reseeds(f, s0, sd) ==
  LET r == Applied(f, Rng_new(make_state(sd)))
  IN [pc |-> "ran", f |-> f, read |-> s0, g |-> r.g, a |-> r.a]

\* with_rng_non_reentrant as far as f(&mut g), on the value s0 read from the
\* Cell and the seed sd that get_system_seed returns if it is called
Entered(f, s0, sd) ==
  LET s == IF s0 = U128Zero THEN make_state(sd) ELSE s0
      r == Applied(f, Rng_new(s))
  IN [pc |-> "ran", f |-> f, read |-> s0, g |-> r.g, a |-> r.a]

\* the owned generator of the history, given the same call
Owned(h, f, s0, sd) ==
  LET first == h.own = NoRng /\ s0 = U128Zero
      r == IF first THEN Applied(f, Rng_from_seed(sd))
           ELSE IF h.own # NoRng THEN Applied(f, h.own)
           ELSE [g |-> NoRng, a |-> <<>>]
      n == h.seedCalls + (IF s0 = U128Zero THEN 1 ELSE 0)
  IN [h EXCEPT !.own = r.g, !.ownRet = r.a, !.begun = @ + 1, !.seedCalls = n,
               !.seededAt = IF first THEN n ELSE @,
               !.seed = IF first THEN sd ELSE @,
               !.ops = Append(@, f)]

\* thread t calls thread_local::chunk::<N>() or thread_local::split():
\* with_rng_non_reentrant from c.get() to f(&mut g)
TLBegin(t, f) ==
  /\ tl[t].pc = "idle"
  /\ Begun(Threads) < MaxAccesses
  /\ \E sd \in (IF RNG[CellOf(t)] = U128Zero THEN OsSeeds ELSE {U128Zero}) :
       /\ tl' = [tl EXCEPT ![t] = Entered(f, RNG[CellOf(t)], sd)]
       /\ hist' = [hist EXCEPT ![t] = Owned(@, f, RNG[CellOf(t)], sd)]
  /\ UNCHANGED <<RNG, ret, coreVars, testVars, periodVars>>

TLChunk(t) == \E N \in ChunkSizes : TLBegin(t, Call("chunk", N))

TLSplit(t) == TLBegin(t, Call("split", 0))

\* thread t's get_system_seed panics in expect: the call unwinds with the
\* Cell as it was
TLPanic(t) ==
  /\ tl[t].pc = "idle"
  /\ Begun(Threads) < MaxAccesses
  /\ RNG[CellOf(t)] = U128Zero
  /\ hist' = [hist EXCEPT ![t].begun = @ + 1, ![t].seedCalls = @ + 1]
  /\ UNCHANGED <<RNG, tl, ret, coreVars, testVars, periodVars>>

\* with_rng_non_reentrant from c.set(u128::from(g.state())) to its return
TLFinish(t) ==
  /\ tl[t].pc = "ran"
  /\ RNG' = [RNG EXCEPT ![CellOf(t)] = Rng_state(tl[t].g)]
  /\ ret' = [ret EXCEPT ![t] = tl[t].a]
  /\ tl' = [tl EXCEPT ![t] = Idle]
  /\ hist' = [hist EXCEPT ![t].lastSet = Rng_state(tl[t].g)]
  /\ UNCHANGED <<coreVars, testVars, periodVars>>

NextTL ==
  \E t \in Threads :
    \/ TLChunk(t)
    \/ TLSplit(t)
    \/ TLPanic(t)
    \/ TLFinish(t)

\* one generator made by Rng::from_seed; no test and no thread runs
Init == InitRng /\ NoTest /\ InitTL /\ NoPeriod

\* the threads before their first access; no owned generator is called
InitThreads == seed = AsciiSeed /\ InitRng /\ NoTest /\ InitTL /\ NoPeriod

\* The callers of one generator: any calls, in any order.
Spec == Init /\ [][Next]_vars

\* The threads that call thread_local::chunk and thread_local::split, their
\* steps interleaved.
SpecTL == InitThreads /\ [][NextTL]_vars

\* ------------------------------------------------------------- the tests

\* the 16 hex digits of a u64, highest first: format!("{:#018x}", v) after
\* its "0x"
Hex18(v) ==
  AsSeq([k \in 1..16 |->
          LET b == v[8 - ((k - 1) \div 2)]
          IN IF k % 2 = 1 THEN b \div 16 ELSE b % 16])

\* digits without their leading zeros, the last digit kept
RECURSIVE Unpadded(_)
Unpadded(d) == IF Len(d) > 1 /\ Head(d) = 0 THEN Unpadded(Tail(d)) ELSE d

\* format!("{:#x}", v) after its "0x"
HexMin(v) == Unpadded(Hex18(v))

\* the strings of the expect![..] of src/tests/all.rs, lines 7-10 (and of
\* src/tests/unified/vectors.rs, lines 6-9) and lines 13-16, after their "0x"
Expected ==
  << <<14, 6, 12, 11, 9, 0, 14, 11, 0, 1, 0, 5, 8, 2, 6, 6>>,
     <<2, 13, 8, 12, 14, 7, 9, 5, 3, 4, 4, 1, 8, 12, 6, 15>>,
     <<6, 1, 9, 12, 13, 12, 14, 6, 1, 1, 0, 12, 5, 10, 5, 4>>,
     <<10, 12, 10, 4, 11, 10, 9, 15, 7, 13, 5, 1, 13, 0, 1, 0>>,
     <<0, 2, 4, 10, 1, 14, 4, 14, 15, 4, 7, 15, 4, 13, 4, 9>>,
     <<5, 11, 4, 0, 8, 3, 0, 11, 8, 7, 7, 3, 4, 7, 7, 7>>,
     <<10, 8, 15, 5, 5, 6, 4, 7, 14, 9, 15, 11, 14, 2, 13, 3>>,
     <<14, 0, 8, 8, 7, 8, 0, 15, 14, 14, 8, 14, 6, 7, 14, 6>> >>

\* let mut g = Rng::from_seed(seed), in either test
InitTest ==
  /\ InitRng
  /\ InitTL
  /\ NoPeriod
  /\ tfile \in {"all", "vectors"}
  /\ tpc = 0
  /\ tseen = <<>>

\* src/tests/all.rs, lines 7-10 and 13-16: format!("{:#018x}", g.u64()).
\* src/src/lib.rs defines no u64; the method that returns the next u64 there
\* is Rng::next, which src/tests/unified/vectors.rs calls for the same four
\* strings.
TestAllDraw ==
  /\ tfile = "all"
  /\ tpc \in {0, 1, 2, 3, 5, 6, 7, 8}
  /\ LET r == Rng_next(g)
     IN /\ g' = r.g
        /\ tseen' = Append(tseen, Hex18(r.c))
  /\ tpc' = tpc + 1
  /\ UNCHANGED <<seed, pre, op, out, child, buf, st, ub, calls, draws, tfile, tlVars, periodVars>>

\* src/tests/all.rs, line 12: let mut g = g.split()
TestAllSplit ==
  /\ tfile = "all"
  /\ tpc = 4
  /\ g' = Rng_split(g).child
  /\ tpc' = tpc + 1
  /\ UNCHANGED <<seed, pre, op, out, child, buf, st, ub, calls, draws, tfile, tseen, tlVars, periodVars>>

\* src/tests/unified/vectors.rs, lines 6-9: format!("{:#x}", g.next())
TestVectorsDraw ==
  /\ tfile = "vectors"
  /\ tpc \in {0, 1, 2, 3}
  /\ LET r == Rng_next(g)
     IN /\ g' = r.g
        /\ tseen' = Append(tseen, HexMin(r.c))
  /\ tpc' = tpc + 1
  /\ UNCHANGED <<seed, pre, op, out, child, buf, st, ub, calls, draws, tfile, tlVars, periodVars>>

NextTest ==
  \/ TestAllDraw
  \/ TestAllSplit
  \/ TestVectorsDraw

\* The two tests, on any seed of Seeds.
SpecTest == InitTest /\ [][NextTest]_vars
\* ------------------------------------------------- the transition's period
\* The state of a generator as a vector over GF(2): the set of the places of
\* its one bits, bit j of x at place j and bit j of y at place 64 + j.  The
\* sum of two vectors is their symmetric difference.

\* struct Rng { x: u64, y: u64 }: 128 bits
Dim == 128

Places == 0..(Dim - 1)

\* the places of the one bits of a u128
BitsOf(s) == {j \in Places : (s[(j \div 8) + 1] \div Pow2[(j % 8) + 1]) % 2 = 1}

\* the u128 with its one bits at the places of v
FromBits(v) ==
  AsSeq([i \in 1..16 |->
    (IF 8 * i - 8 \in v THEN 1 ELSE 0) + (IF 8 * i - 7 \in v THEN 2 ELSE 0)
      + (IF 8 * i - 6 \in v THEN 4 ELSE 0) + (IF 8 * i - 5 \in v THEN 8 ELSE 0)
      + (IF 8 * i - 4 \in v THEN 16 ELSE 0) + (IF 8 * i - 3 \in v THEN 32 ELSE 0)
      + (IF 8 * i - 2 \in v THEN 64 ELSE 0) + (IF 8 * i - 1 \in v THEN 128 ELSE 0)])

\* the state one call of Rng::next leaves, from the state v
Transition(v) == BitsOf(Rng_state(Rng_next(Rng_new(FromBits(v))).g))

\* u + v over GF(2)
Plus(u, v) == (u \ v) \cup (v \ u)

\* the matrix of the transition: column j is what the transition makes of the
\* state with its one bit at place j - 1
A == AsSeq([j \in 1..Dim |-> Transition({j - 1})])

Identity == AsSeq([j \in 1..Dim |-> {j - 1}])

\* the sum of the columns lo..hi of M at the places of v
RECURSIVE Fold(_, _, _, _)
Fold(M, v, lo, hi) ==
  IF lo = hi THEN (IF lo - 1 \in v THEN M[lo] ELSE {})
  ELSE Plus(Fold(M, v, lo, (lo + hi) \div 2), Fold(M, v, ((lo + hi) \div 2) + 1, hi))

\* the matrix M applied to the vector v
Apply(M, v) == Fold(M, v, 1, Dim)

\* the product M N: first N, then M
Mul(M, N) == AsSeq([j \in 1..Dim |-> Apply(M, N[j])])

\* 3 * 5 * 17 * 257 * 65537 * 641 * 6700417 * 274177 * 67280421310721
\* = 2^128 - 1, each prime in little-endian bytes
Primes ==
  << <<3>>, <<5>>, <<17>>, <<1, 1>>, <<1, 0, 1>>, <<129, 2>>, <<129, 61, 102>>,
     <<1, 47, 4>>, <<1, 209, 156, 241, 48, 61>> >>

\* byte i of a number in little-endian bytes
Limb(x, i) == IF i <= Len(x) THEN x[i] ELSE 0

\* the sum of the byte products x[i] * y[j] with (i - 1) + (j - 1) = c, from
\* byte i of x on
RECURSIVE LimbColumn(_, _, _, _)
LimbColumn(x, y, c, i) ==
  IF i > c + 1 \/ i > Len(x) THEN 0
  ELSE x[i] * Limb(y, c - i + 2) + LimbColumn(x, y, c, i + 1)

\* the bytes c + 1, ..., n of x * y
RECURSIVE TimesFrom(_, _, _, _, _)
TimesFrom(x, y, c, n, carry) ==
  IF c >= n THEN <<>>
  ELSE <<(LimbColumn(x, y, c, 1) + carry) % 256>>
       \o TimesFrom(x, y, c + 1, n, (LimbColumn(x, y, c, 1) + carry) \div 256)

\* the low 32 bytes of x * y
Times(x, y) == TimesFrom(x, y, 0, 32, 0)

\* the product of the primes from the i-th on, but the p-th, in 16 bytes
RECURSIVE ProductBut(_, _)
ProductBut(p, i) ==
  IF i > Len(Primes) THEN U128One
  ELSE IF i = p THEN ProductBut(p, i + 1)
  ELSE SubSeq(Times(Primes[i], ProductBut(p, i + 1)), 1, 16)

\* (2^128 - 1) / Primes[p], for each p
Cofactors == AsSeq([p \in 1..Len(Primes) |-> ProductBut(p, 1)])

\* the states the powers of the transition are applied to: 1 (what a zero
\* seed makes) and b"autovivification"
Probes == <<BitsOf(U128One), BitsOf(AsciiSeed)>>

\* the exponents 2^128 - 1 and (2^128 - 1) / p from their lowest bit on:
\* nothing taken of any, no generator called
InitPeriod ==
  /\ pk = 0
  /\ Sq = A
  /\ Pw = Identity
  /\ acc = AsSeq([v \in 1..Len(Probes) |-> AsSeq([p \in 1..Len(Primes) |-> Probes[v]])])
  /\ seed = AsciiSeed
  /\ InitRng
  /\ NoTest
  /\ InitTL

\* bit pk of the exponents: 2^(pk + 1) - 1 = 2^pk + (2^pk - 1), and bit pk of
\* (2^128 - 1) / p adds 2^pk to that exponent
TakeBit ==
  /\ pk < Dim
  /\ pk' = pk + 1
  /\ Sq' = Mul(Sq, Sq)
  /\ Pw' = Mul(Sq, Pw)
  /\ acc' = AsSeq([v \in 1..Len(Probes) |-> AsSeq([p \in 1..Len(Primes) |->
              IF (Cofactors[p][(pk \div 8) + 1] \div Pow2[(pk % 8) + 1]) % 2 = 1
              THEN Apply(Sq, acc[v][p])
              ELSE acc[v][p]])])
  /\ UNCHANGED <<coreVars, testVars, tlVars>>

NextPeriod == TakeBit

\* The powers of the transition by repeated squaring.
SpecPeriod == InitPeriod /\ [][NextPeriod]_vars

\* ------------------------------------------- the claims' own arithmetic
\* The claims are stated on bits and on base-16 digits, apart from the byte
\* arithmetic of the model.

\* bit j (0 = lowest) of a little-endian byte sequence
Bit(x, j) == (x[(j \div 8) + 1] \div Pow2[(j % 8) + 1]) % 2

\* a u64 is 8 bytes
IsU64(x) == Len(x) = 8 /\ \A i \in 1..8 : x[i] \in Byte

\* the 2 * Len(x) base-16 digits of x, lowest first
Digits(x) ==
  AsSeq([k \in 1..(2 * Len(x)) |->
          IF k % 2 = 1 THEN x[(k + 1) \div 2] % 16 ELSE x[k \div 2] \div 16])

\* the sum of dx[i] * dy[j] over the 16 digits each of dx and dy with
\* (i - 1) + (j - 1) = k, from digit i of dx on
RECURSIVE DigitColumn(_, _, _, _)
DigitColumn(dx, dy, k, i) ==
  IF i > 16 \/ i > k + 1 THEN 0
  ELSE (IF k - i + 2 <= 16 THEN dx[i] * dy[k - i + 2] ELSE 0)
       + DigitColumn(dx, dy, k, i + 1)

\* the base-16 digits k, k + 1, ..., 31 of the product of two 16-digit numbers
RECURSIVE ProductDigits(_, _, _, _)
ProductDigits(dx, dy, k, carry) ==
  IF k > 31 THEN <<>>
  ELSE LET t == DigitColumn(dx, dy, k, 1) + carry
       IN <<t % 16>> \o ProductDigits(dx, dy, k + 1, t \div 16)

\* the 32 base-16 digits of x * y for two u64
Product(x, y) == ProductDigits(Digits(x), Digits(y), 0, 0)

\* the 16 base-16 digits of (a + b) mod 2^64 from digit i on
RECURSIVE SumDigits(_, _, _, _)
SumDigits(da, db, i, carry) ==
  IF i > 16 THEN <<>>
  ELSE LET t == da[i] + db[i] + carry
       IN <<t % 16>> \o SumDigits(da, db, i + 1, t \div 16)

\* the digits of (a + ((x * y mod 2^64) xor floor(x * y / 2^64))) mod 2^64
Tempered(a, x, y) ==
  LET p == Product(x, y)
      m == AsSeq([i \in 1..16 |-> XorN(p[i], p[i + 16], 4)])
  IN SumDigits(Digits(a), m, 1, 0)

\* the generator after n calls of next
RECURSIVE After(_, _)
After(r, n) == IF n = 0 THEN r ELSE After(Rng_next(r).g, n - 1)

\* the n values that n calls of next return, in order
RECURSIVE Outputs(_, _)
Outputs(r, n) ==
  IF n = 0 THEN <<>> ELSE <<Rng_next(r).c>> \o Outputs(Rng_next(r).g, n - 1)

\* the little-endian bytes of a sequence of u64, one after the other
RECURSIVE LeBytes(_)
LeBytes(a) == IF a = <<>> THEN <<>> ELSE Head(a) \o LeBytes(Tail(a))

\* ---------------------------------------------------------------- claims

\* C1: one call of next on the state (x, y) leaves the state (a, b) with
\* a = rotate_right(x, 7) xor y and b = x xor (x >> 19), and returns
\* (a + ((x * y mod 2^64) xor floor(x * y / 2^64))) mod 2^64; the state is
\* advanced once.
C1_NextStep ==
  op.name = "next" =>
    /\ IsU64(g.x) /\ IsU64(g.y)
    /\ \A j \in 0..63 :
         Bit(g.x, j) = (Bit(pre.x, (j + 7) % 64) + Bit(pre.y, j)) % 2
    /\ \A j \in 0..63 :
         Bit(g.y, j) =
           (Bit(pre.x, j) + (IF j + 19 <= 63 THEN Bit(pre.x, j + 19) ELSE 0)) % 2
    /\ Len(out) = 1 /\ IsU64(out[1])
    /\ Digits(out[1]) = Tempered(g.x, pre.x, pre.y)
    /\ calls = 1

\* C1's case: next on the state whose product and sum overflow 64 bits
C1_Witness == op.name = "next" /\ pre.x = U64Max /\ pre.y = U64Max

\* C3: fill on a buffer of L bytes writes the little-endian bytes of
\* ceil(L / 8) consecutive next() values, cut to L bytes, and leaves the
\* generator where ceil(L / 8) calls of next leave it; no call for L = 0,
\* three for L = 20.
C3_FillBytes ==
  op.name = "fill" =>
    LET L == op.n
        k == (L + 7) \div 8
    IN /\ Len(buf) = L
       /\ buf = SubSeq(LeBytes(Outputs(pre, k)), 1, L)
       /\ g = After(pre, k)
       /\ calls = k
       /\ (L = 0 => g = pre /\ calls = 0)
       /\ (L = 20 => calls = 3)

\* C3's case: a 20-byte buffer filled
C3_Witness == op.name = "fill" /\ op.n = 20 /\ Len(buf) = 20

\* the original generator after split: advanced by the two calls of next
SplitAdvances == g = After(pre, 2) /\ calls = 2

\* C4 as the spec states it: the child's state is (p, q), the two values
\* next returned, with p taken as it is.
C4_SplitAsIs ==
  op.name = "split" =>
    /\ child = [x |-> Outputs(pre, 2)[1], y |-> Outputs(pre, 2)[2]]
    /\ SplitAdvances

\* C4, amended: the child's state is (p | 1, q): bit 0 of x is 1, the other
\* bits of x are those of p, and y is q; the original is advanced by two
\* calls of next.
C4_SplitForcesOdd ==
  op.name = "split" =>
    LET p == Outputs(pre, 2)[1]
        q == Outputs(pre, 2)[2]
    IN /\ IsU64(child.x)
       /\ Bit(child.x, 0) = 1
       /\ \A j \in 1..63 : Bit(child.x, j) = Bit(p, j)
       /\ child.y = q
       /\ SplitAdvances

\* C4's case: a split whose first value is even, so that | 1 changes it
C4_Witness ==
  op.name = "split" /\ Bit(Outputs(pre, 2)[1], 0) = 0 /\ Bit(child.x, 0) = 1

\* C5 as the spec states it: from_seed reads every seed, the all-zero one
\* too, as a little-endian u128 with x the low and y the high 64 bits.
C5_SeedAsIs ==
  op.name = "from_seed" =>
    /\ IsU64(g.x) /\ IsU64(g.y)
    /\ \A j \in 0..63 : Bit(g.x, j) = Bit(seed, j) /\ Bit(g.y, j) = Bit(seed, 64 + j)

\* C5, amended: from_seed reads a seed that is not all zero as a
\* little-endian u128 with x the low and y the high 64 bits; the all-zero
\* seed gives the state 1, that is x = 1 and y = 0.
C5_SeedNonZero ==
  op.name = "from_seed" =>
    /\ IsU64(g.x) /\ IsU64(g.y)
    /\ (seed # U128Zero =>
          \A j \in 0..63 :
            Bit(g.x, j) = Bit(seed, j) /\ Bit(g.y, j) = Bit(seed, 64 + j))
    /\ (seed = U128Zero => g.x = U64One /\ g.y = U64Zero)

\* C5's case: a generator made from the all-zero seed
C5_Witness == op.name = "from_seed" /\ seed = U128Zero /\ g.x = U64One

\* C10: the state of every generator is not zero: the one held, the one
\* split off, and the u128 that state() builds.
C10_NonZero ==
  /\ Rng_state(g) # U128Zero
  /\ (child # NoRng => Rng_state(child) # U128Zero)
  /\ (op.name = "state" => st # U128Zero)
  /\ ~ub

\* C10's case: state() on a generator split off the one made from the
\* all-zero seed
C10_Witness ==
  /\ seed = U128Zero
  /\ op.name = "state"
  /\ draws = 2
  /\ g # After(Rng_from_seed(seed), 2)

\* C2: the generator made from b"autovivification" returns
\* 0xe6cb90eb01058266, 0x2d8ce79534418c6f, 0x619cdce6110c5a54 and
\* 0xaca4ba9f7d51d010 from its first four calls of next, in this order, in
\* each of the tests that makes one.
C2_FirstFour ==
  (tfile \in {"all", "vectors"} /\ seed = AsciiSeed) =>
    \A i \in 1..Len(tseen) : i <= 4 => tseen[i] = Expected[i]

\* C2's case: the four values drawn
C2_Witness == seed = AsciiSeed /\ tfile = "vectors" /\ Len(tseen) = 4

\* C6: split after those four values gives a child that returns
\* 0x024a1e4ef47f4d49, 0x5b40830b87734777, 0xa8f55647e9fbe2d3 and
\* 0xe088780fee8e67e6 from its first four calls of next, in this order.
C6_ChildFour ==
  (tfile = "all" /\ seed = AsciiSeed) =>
    \A i \in 1..Len(tseen) : i > 4 => tseen[i] = Expected[i]

\* C6's case: the four values of the child drawn
C6_Witness == seed = AsciiSeed /\ tfile = "all" /\ tpc = 9 /\ Len(tseen) = 8

\* ------------------------------------------------------ thread_local claims

\* the calls ops made one after the other on an owned generator r: the
\* generator after the last call and what the last call returned
RECURSIVE Replay(_, _, _)
Replay(r, a, ops) ==
  IF ops = <<>> THEN [g |-> r, a |-> a]
  ELSE IF Head(ops).name = "chunk"
       THEN Replay(Rng_chunk(r, Head(ops).n).g, Rng_chunk(r, Head(ops).n).a, Tail(ops))
       ELSE Replay(Rng_split(r).g, Rng_split(r).child, Tail(ops))

\* thread t holds a state made from a seed of the OS
Seeded(t) == hist[t].own # NoRng

\* C7: on each thread the calls of thread_local::chunk and thread_local::split
\* do what the same calls of Rng::chunk and Rng::split do on one owned
\* generator made from the seed the OS gave once.  The Cell holds the zero
\* sentinel until the first access that got a seed returns and a nonzero
\* state from then on; an access that ran f holds the generator and the
\* result of the owned generator; an access that returned left the state of
\* the owned generator in the Cell and returned its result; every access
\* read what the access before it wrote; and get_system_seed is not called
\* again once it succeeded.
C7_OwnedRefinement ==
  \A t \in Threads :
    /\ tl[t].pc = "ran" =>
         /\ Seeded(t)
         /\ tl[t].g = hist[t].own
         /\ tl[t].a = hist[t].ownRet
         /\ tl[t].read = hist[t].lastSet
         /\ (tl[t].read = U128Zero) = (Len(hist[t].ops) = 1)
    /\ (tl[t].pc = "idle" /\ Seeded(t)) =>
         /\ RNG[CellOf(t)] = Rng_state(hist[t].own)
         /\ RNG[CellOf(t)] # U128Zero
         /\ ret[t] = hist[t].ownRet
    /\ ~Seeded(t) => (RNG[CellOf(t)] = U128Zero /\ ret[t] = <<>>)
    /\ Seeded(t) => hist[t].seedCalls = hist[t].seededAt

\* a thread returned from its third access, the first of them seeded from a
\* zero seed of the OS
C7_Witness ==
  \E t \in Threads :
    /\ tl[t].pc = "idle"
    /\ Len(hist[t].ops) = 3
    /\ hist[t].seed = U128Zero
    /\ hist[t].ops[3].name = "split"
    /\ RNG[CellOf(t)] # U128One

\* C8: with two threads, their accesses interleaved in every way, what each
\* thread got back and what its Cell holds are what its own calls alone, made
\* on a generator of its own seed, give; the Cell of a thread holds what that
\* thread last wrote, whatever the other thread did.
C8_ThreadsIsolated ==
  \A t \in Threads :
    /\ RNG[t] = hist[t].lastSet
    /\ hist[t].ops # <<>> => Seeded(t)
    /\ (tl[t].pc = "idle" /\ Seeded(t)) =>
         LET r == Replay(Rng_from_seed(hist[t].seed), <<>>, hist[t].ops)
         IN /\ ret[t] = r.a
            /\ RNG[t] = Rng_state(r.g)
    /\ (tl[t].pc = "ran" /\ Seeded(t)) =>
         LET r == Replay(Rng_from_seed(hist[t].seed), <<>>, hist[t].ops)
         IN /\ tl[t].a = r.a
            /\ tl[t].g = r.g

\* thread 1 is inside its second access, begun after thread 2 went through
\* an access of its own while thread 1 was idle
C8_Witness ==
  /\ tl[1].pc = "ran"
  /\ Len(hist[1].ops) = 2
  /\ tl[2].pc = "idle"
  /\ Len(hist[2].ops) = 1
  /\ RNG[1] # U128Zero
  /\ RNG[2] # U128Zero
  /\ RNG[1] # RNG[2]

\* ------------------------------------------------------------ period claim

\* 2^128 - 1 in 32 bytes
AllOnes == AsSeq([i \in 1..32 |-> IF i <= 16 THEN 255 ELSE 0])

\* C9: the transition of next is linear over GF(2) (on the vectors at hand:
\* what it makes of u + w is what it makes of u plus what it makes of w, and
\* its matrix applied to u is what it makes of u); the primes of the model
\* multiply to 2^128 - 1; the matrix to the power 2^128 - 1 is the identity,
\* so that the map is invertible and its order divides 2^128 - 1; and for
\* every prime factor p the power (2^128 - 1) / p moves the probe states, so
\* that the order does not divide (2^128 - 1) / p.
C9_FullPeriod ==
  /\ \A p \in 1..Len(Primes) : Times(Primes[p], Cofactors[p]) = AllOnes
  /\ \A v \in 1..Len(Probes) : \A p \in 1..Len(Primes) :
       LET u == Sq[(pk % Dim) + 1]
           w == acc[v][p]
       IN /\ Transition(Plus(u, w)) = Plus(Transition(u), Transition(w))
          /\ Transition(w) = Apply(A, w)
  /\ pk = Dim =>
       /\ Pw = Identity
       /\ Sq = A
       /\ \A v \in 1..Len(Probes) : \A p \in 1..Len(Primes) : acc[v][p] # Probes[v]

\* all 128 bits of the exponents taken
C9_Witness == pk = Dim /\ Pw = Identity /\ acc[1][1] # Probes[1] /\ acc[2][9] # Probes[2]

====
